---- MODULE Spec2Model ----
(***************************************************************************)
(* A model of simple_history (src/simple_history/models.py and             *)
(* src/simple_history/__init__.py): registration of models for history     *)
(* tracking, and the signal handlers that write historical records.        *)
(*                                                                         *)
(* The application schema the handlers run on is fixed:                    *)
(*   B   a tracked model                                                   *)
(*   R   an untracked model                                                *)
(*   A   a tracked model with a nullable foreign key fk to R (SET_NULL)    *)
(*       and a many-to-many field bs to B through the auto-created AB      *)
(*   AB  the auto-created through model of A.bs (foreign keys a and b)     *)
(*   P   a proxy model of A                                                *)
(* The host framework (model save and delete, related managers, signal     *)
(* dispatch, AutoField, foreign-key constraints) is modelled by what it    *)
(* does to the tables and by the signals it sends.                         *)
(***************************************************************************)
EXTENDS Integers, Sequences, FiniteSets, TLC

\* ------------------------------------------------------------- bounds
MaxHist == 4        \* historical rows written in a run of Spec
MaxHistDate == 3    \* historical rows written in a run of SpecDate
MaxHistFk == 3      \* historical rows written in a run of SpecFk
MaxHistAll == 2     \* historical rows written in a run of SpecAll
MaxHistM2M == 4     \* historical rows written in a run of SpecM2M
MaxHistReg == 2     \* historical rows written in a run of SpecReg
MaxClock == 1       \* readings of now() are 0..MaxClock
MaxAttrs == 2       \* HistoricalRecords attributes of one model class
MaxHistDel == 4     \* historical rows written in a run of SpecDel
MaxHistUser == 2    \* historical rows written in a run of SpecUser

\* ------------------------------------------------------------- schema
Models == {"A", "B", "AB", "P"}
APks == {1, 2}
BPks == {1}
RPks == {1}
Users == {"u1"}
Threads == {"t1"}
AllThreads == Threads \cup {"t2"}
None == "None"
Unset == "unset"

db_table(m) == CASE m = "A" -> "app_a" [] m = "P" -> "app_a"
                 [] m = "B" -> "app_b" [] m = "AB" -> "app_a_bs"
proxy(m) == m = "P"
auto_created(m) == m = "AB"
\* the non-abstract base class of a proxy model
OriginalClass(m) == IF m = "P" THEN "A" ELSE m
issubclass(m, c) == m = c \/ (m = "P" /\ c = "A")
\* the through models of the many-to-many fields in model._meta.many_to_many
many_to_many(m) == IF m \in {"A", "P"} THEN <<"AB">> ELSE << >>

\* ------------------------------------------------------------- registry
\* The registry is the module's and the model classes' registration state:
\*   registered_models  keys of the dict registered_models
\*   attr               models whose _meta has simple_history_manager_attribute
\*   handlers           how many sets of signal handlers are connected per sender
\*   descriptor         the historical model behind the class's own manager
\*   error              the exception that ended the last call, or "none"
NoError == "none"
\* a key of registered_models: a table name followed by a suffix, '%s%s'
Key(table, suffix) == <<table, suffix>>
EmptyRegistry ==
    [registered_models |-> {},
     attr |-> {},
     handlers |-> [m \in Models |-> 0],
     descriptor |-> [m \in Models |-> "none"],
     error |-> NoError]

Raise(g, e) == [g EXCEPT !.error = e]

not_registered(g, model) ==
    IF proxy(model)
    THEN Key(db_table(model), model) \notin g.registered_models
    ELSE Key(db_table(model), "") \notin g.registered_models

\* getattr(sender, manager_name): the class's own descriptor, else its base's
ManagerOf(g, m) ==
    IF g.descriptor[m] # "none" THEN g.descriptor[m]
    ELSE g.descriptor[OriginalClass(m)]

DefaultConfig == [records_class |-> FALSE, m2m_fields |-> FALSE, inherit |-> FALSE]

RECURSIVE register(_, _, _)
RECURSIVE finalize(_, _, _)
RECURSIVE setup_m2m_loop(_, _, _)

create_history_model(g, model) ==
    [g EXCEPT !.registered_models = @ \cup {Key(db_table(model), "")}]

\* the tail of finalize: connect the four handlers, set the manager and the mark
ConnectHandlers(g, sender, history_model) ==
    [g EXCEPT !.handlers[sender] = @ + 1,
              !.descriptor[sender] = history_model,
              !.attr = @ \cup {sender}]

\* finalize if it did not refuse a sender that is already tracked
finalize_NoDuplicateCheck(g, records, sender) ==
    IF g.error # NoError THEN g
    ELSE IF records.cls # sender
            /\ ~(records.inherit /\ issubclass(sender, records.cls))
    THEN g
    ELSE IF proxy(sender)
    THEN ConnectHandlers(g, sender, ManagerOf(g, sender))
    ELSE ConnectHandlers(create_history_model(g, sender), sender, sender)

finalize(g, records, sender) ==
    IF g.error # NoError THEN g
    ELSE IF records.cls # sender
            /\ ~(records.inherit /\ issubclass(sender, records.cls))
    THEN g
    ELSE IF sender \in g.attr
    THEN Raise(g, "MultipleRegistrationsError")
    ELSE IF proxy(sender)
    THEN LET original_class == OriginalClass(sender)
             g1 == IF not_registered(g, original_class)
                   THEN register(g, original_class,
                                 [records_class |-> TRUE,
                                  m2m_fields |-> records.m2m_fields,
                                  inherit |-> FALSE])
                   ELSE g
         IN  IF g1.error # NoError THEN g1
             ELSE IF ManagerOf(g1, sender) = "none"
             THEN Raise(g1, "AttributeError")
             ELSE ConnectHandlers(g1, sender, ManagerOf(g1, sender))
    ELSE ConnectHandlers(create_history_model(g, sender), sender, sender)

setup_m2m_loop(g, throughs, i) ==
    IF i > Len(throughs) \/ g.error # NoError THEN g
    ELSE LET through_model == throughs[i]
             g1 == IF auto_created(through_model) /\ not_registered(g, through_model)
                   THEN register(g, through_model, DefaultConfig)
                   ELSE g
         IN  setup_m2m_loop(g1, throughs, i + 1)

setup_m2m_history(g, records, cls) ==
    IF records.m2m_fields THEN setup_m2m_loop(g, many_to_many(cls), 1) ELSE g

register(g, model, records_config) ==
    IF g.error # NoError THEN g
    ELSE IF Key(db_table(model), "") \in g.registered_models THEN g
    ELSE IF records_config.records_class THEN Raise(g, "TypeError")
    ELSE LET records == [cls |-> model,
                         inherit |-> records_config.inherit,
                         m2m_fields |-> records_config.m2m_fields]
             g1 == setup_m2m_history(g, records, model)
             g2 == finalize(g1, records, model)
         IN  IF g2.error # NoError THEN g2
             ELSE [g2 EXCEPT !.registered_models = @ \cup {Key(db_table(model), "")}]

\* ------------------------------------------------------------- state
VARIABLES
    reg,        \* the registry (see EmptyRegistry)
    connected,  \* the HistoricalRecords whose finalize is connected to class_prepared
    prepared,   \* the model classes that have been created, and the mark
                \* "ImportError" once the creation of a class has raised
    live,       \* the live tables: A (pk -> fk), B, R, AB (pairs <<a, b>>), U (users)
    hist,       \* the historical tables: model -> sequence of rows in insertion order
    nextId,     \* the AutoField history_id of each historical table: the next value
    stash,      \* the attribute __pre_clear_items of each in-memory instance
    clock,      \* the reading of now()
    request,    \* HistoricalRecords.thread.request of each thread
    skip_history_when_saving,
                \* per instance: whether the object has the attribute of that name
    cleared,    \* per instance: whether its last many-to-many call was clear(),
                \* and the targets it was related to when that clear() was called
    lastOp      \* the last operation: what was called and what it wrote

vars == <<reg, connected, prepared, live, hist, nextId, stash, clock, request,
          skip_history_when_saving, cleared, lastOp>>

HistModels == {"A", "B", "AB"}
Null == 0           \* a null foreign key
NoDate == -1        \* the instance has no attribute _history_date
HistoryTypes == {"+", "~", "-"}
\* the in-memory instances that many-to-many managers are used on
Instances == {<<"A", pk>> : pk \in APks} \cup {<<"B", pk>> : pk \in BPks}
NoStash == [set |-> FALSE, items |-> {}]
NotCleared == [set |-> FALSE, members |-> {}]

\* ------------------------------------------------------------- instances
\* An instance handed to a handler: its model, its pk, its field values by
\* attname, and the attributes the handlers look for on it.
Instance(model, pk, attrs, history_user, history_date, skip) ==
    [model |-> model, pk |-> pk, attrs |-> attrs,
     history_user |-> history_user, history_date |-> history_date, skip |-> skip]

\* an object freshly loaded from the database carries no extra attribute
Loaded(model, pk, attrs) == Instance(model, pk, attrs, Unset, NoDate, FALSE)
LoadA(db, pk) == Loaded("A", pk, [id |-> pk, fk_id |-> db.A[pk]])
LoadB(pk) == Loaded("B", pk, [id |-> pk])
LoadAB(item) == Loaded("AB", item, [a_id |-> item[1], b_id |-> item[2]])
LoadTarget(db, model, pk) == IF model = "B" THEN LoadB(pk) ELSE LoadA(db, pk)
Exists(db, model, pk) ==
    IF model = "B" THEN pk \in db.B ELSE pk \in DOMAIN db.A

\* the elements of a finite set of integers in ascending order
RECURSIVE Sorted(_)
Sorted(S) ==
    IF S = {} THEN << >>
    ELSE LET x == CHOOSE y \in S : \A z \in S : y <= z
         IN  <<x>> \o Sorted(S \ {x})

\* ------------------------------------------------------------- handlers
\* A handler runs in a context c = [g, db, t]: the registry, the live tables
\* as they are when the signal is sent, and the calling thread.  The handlers
\* thread h = [rows, next, error]: the historical tables, their AutoField
\* counters, and the exception that ended the call, if any.
Context(g, db, t) == [g |-> g, db |-> db, t |-> t]

\* get_history_user if it asked the request before the instance
get_history_user_RequestFirst(instance, t) ==
    IF request[t] \in Users THEN request[t]
    ELSE IF instance.history_user # Unset THEN instance.history_user
    ELSE None

\* get_history_user if the request were kept in one slot for all threads
get_history_user_SharedRequest(instance, t) ==
    IF instance.history_user # Unset THEN instance.history_user
    ELSE IF \E t2 \in AllThreads : request[t2] \in Users
    THEN CHOOSE u \in Users : \E t2 \in AllThreads : request[t2] = u
    ELSE None

get_history_user(instance, t) ==
    IF instance.history_user # Unset THEN instance.history_user
    ELSE IF request[t] \in {"norequest", "nouser"} THEN None
    ELSE IF request[t] = "anon" THEN None
    ELSE request[t]

\* getattr(instance, '_history_date', now())
HistoryDateOf(instance) ==
    IF instance.history_date # NoDate THEN instance.history_date ELSE clock

\* the copied key if it kept the options of the model's own foreign key
CopiedFk_AsOriginal == [db_constraint |-> TRUE, on_delete |-> "CASCADE"]

\* copy_fields: how a foreign key of the model is copied to the historical
\* model
CopiedFk == [db_constraint |-> FALSE, on_delete |-> "DO_NOTHING"]

\* the pk that the copied foreign keys of a historical row of table m hold
\* for the rows of `model`
RefsTo(m, attrs, model) ==
    IF m = "A" /\ model = "R" THEN {attrs.fk_id} \ {Null}
    ELSE IF m = "AB" /\ model = "A" THEN {attrs.a_id}
    ELSE IF m = "AB" /\ model = "B" THEN {attrs.b_id}
    ELSE {}
RowsOf(db, model) ==
    IF model = "A" THEN DOMAIN db.A ELSE IF model = "B" THEN db.B ELSE db.R
\* a copied foreign key of the row refers to a row that does not exist
Dangling(db, m, attrs) ==
    \E model \in {"A", "B", "R"} : RefsTo(m, attrs, model) \ RowsOf(db, model) # {}

\* what the deletion of row pk of `model` does to the historical tables
\* through the copied foreign keys that refer to it
HistoricalOnDelete(rows, model, pk) ==
    IF CopiedFk.on_delete = "CASCADE"
    THEN [m \in HistModels |->
             SelectSeq(rows[m], LAMBDA r : pk \notin RefsTo(m, r.attrs, model))]
    ELSE rows
\* the database refuses the deletion: a constrained key still refers to the row
DeleteRefused(rows, model, pk) ==
    /\ CopiedFk.db_constraint
    /\ \E m \in HistModels : \E i \in 1..Len(rows[m]) :
           pk \in RefsTo(m, rows[m][i].attrs, model)

\* history_id if it came from a fixed default instead of the table's sequence
AutoId_Default(h, manager) == 1

\* the AutoField history_id of a new row of a historical table
AutoId(h, manager) == h.next[manager]

\* the number of rows of the historical tables; the rows carry their position
\* in the order of all inserts as seq
TotalRows(rows) == Len(rows["A"]) + Len(rows["B"]) + Len(rows["AB"])

create_historical_record(h, c, instance, history_type) ==
    IF h.error # NoError THEN h
    ELSE LET history_date == HistoryDateOf(instance)
             history_user == get_history_user(instance, c.t)
             manager == ManagerOf(c.g, instance.model)
         IN  IF manager = "none" THEN [h EXCEPT !.error = "AttributeError"]
             ELSE IF history_user # None /\ history_user \notin c.db.U
             THEN [h EXCEPT !.error = "IntegrityError"]
             ELSE IF CopiedFk.db_constraint /\ Dangling(c.db, manager, instance.attrs)
             THEN [h EXCEPT !.error = "IntegrityError"]
             ELSE [h EXCEPT
                     !.rows[manager] = Append(@,
                         [history_id |-> AutoId(h, manager),
                          history_date |-> history_date,
                          history_user |-> history_user,
                          history_type |-> history_type,
                          attrs |-> instance.attrs,
                          seq |-> TotalRows(h.rows) + 1]),
                     !.next[manager] = @ + 1]

\* post_save if it skipped whenever the attribute is set
post_save_SkipAlways(h, c, instance, created, raw) ==
    IF instance.skip THEN h
    ELSE IF ~raw
    THEN create_historical_record(h, c, instance, IF created THEN "+" ELSE "~")
    ELSE h

\* post_save if it tagged every save as a change
post_save_AlwaysChanged(h, c, instance, created, raw) ==
    IF ~created /\ instance.skip THEN h
    ELSE IF ~raw
    THEN create_historical_record(h, c, instance, "~")
    ELSE h

post_save(h, c, instance, created, raw) ==
    IF ~created /\ instance.skip THEN h
    ELSE IF ~raw
    THEN create_historical_record(h, c, instance, IF created THEN "+" ELSE "~")
    ELSE h

\* model._meta.fields, by attname
Fields(model) ==
    IF model = "B" THEN <<"id">>
    ELSE IF model = "AB" THEN <<"a_id", "b_id">>
    ELSE <<"id", "fk_id">>

\* the reconstruction if it read the row the snapshot was taken of
get_instance_FromLiveRow(row, model) ==
    IF model = "A" /\ row.attrs.id \in DOMAIN live.A
    THEN [id |-> row.attrs.id, fk_id |-> live.A[row.attrs.id]]
    ELSE row.attrs

\* get_extra_fields.get_instance, the `instance` property of a historical row:
\* model(**{field.attname: getattr(self, field.attname)}) over the copied fields
get_instance(row, model) ==
    [f \in {Fields(model)[i] : i \in 1..Len(Fields(model))} |-> row.attrs[f]]

\* HistoricalObjectDescriptor.__get__: the values of the row, in the order of
\* the model's fields
history_object(row, model) ==
    [i \in 1..Len(Fields(model)) |-> row.attrs[Fields(model)[i]]]

\* the ordering if it were ('-history_date', 'history_id')
ComesBefore_IdAscending(x, y) ==
    \/ x.history_date > y.history_date
    \/ x.history_date = y.history_date /\ x.history_id < y.history_id

\* get_meta_options: the default ordering ('-history_date', '-history_id') of
\* a historical model: whether row x comes before row y
ComesBefore(x, y) ==
    \/ x.history_date > y.history_date
    \/ x.history_date = y.history_date /\ x.history_id > y.history_id

post_delete(h, c, instance) ==
    create_historical_record(h, c, instance, "-")

\* create_historical_record(x, history_type) for every x of a sequence, in order
RECURSIVE RecordEach(_, _, _, _)
RecordEach(h, c, instances, history_type) ==
    IF instances = << >> THEN h
    ELSE RecordEach(create_historical_record(h, c, Head(instances), history_type),
                    c, Tail(instances), history_type)

\* the B pks an A instance is related to, in query order
RelatedPks(db, pk) == Sorted({b \in BPks : <<pk, b>> \in db.AB})
\* through_model.objects.filter(a=instance.pk)
ItemsOfA(db, pk) ==
    [i \in 1..Len(RelatedPks(db, pk)) |-> LoadAB(<<pk, RelatedPks(db, pk)[i]>>)]
\* m2m_field.value_from_object(instance)
RelatedOfA(db, pk) ==
    [i \in 1..Len(RelatedPks(db, pk)) |-> LoadB(RelatedPks(db, pk)[i])]

RECURSIVE pre_delete_loop(_, _, _, _, _)
pre_delete_loop(h, c, instance, throughs, i) ==
    IF i > Len(throughs) THEN h
    ELSE LET through_model == throughs[i]
             h1 == IF through_model \in c.g.attr
                   THEN RecordEach(
                            RecordEach(h, c, ItemsOfA(c.db, instance.pk), "-"),
                            c, RelatedOfA(c.db, instance.pk), "~")
                   ELSE h
         IN  pre_delete_loop(h1, c, instance, throughs, i + 1)

pre_delete(h, c, instance) ==
    pre_delete_loop(h, c, instance, many_to_many(instance.model), 1)

has_m2m_field(model, through) ==
    \E i \in 1..Len(many_to_many(model)) : many_to_many(model)[i] = through

\* ---- m2m_changed
\* A many-to-many signal comes from the manager of an A instance (forward:
\* the targets are B objects) or of a B instance (reverse: the targets are A
\* objects).  An item is a through row <<a, b>>.
Forward(instance) == instance.model # "B"
TargetModel(instance) == IF Forward(instance) THEN "B" ELSE "A"
TargetPk(instance, item) == IF Forward(instance) THEN item[2] ELSE item[1]
SourcePk(instance, item) == IF Forward(instance) THEN item[1] ELSE item[2]
ItemOf(instance, target) ==
    IF Forward(instance) THEN <<instance.pk, target>> ELSE <<target, instance.pk>>
TargetsOf(instance, itemset) == {TargetPk(instance, it) : it \in itemset}
\* a set of items of one instance as a sequence, in query order
ItemSeq(instance, itemset) ==
    [i \in 1..Len(Sorted(TargetsOf(instance, itemset))) |->
        ItemOf(instance, Sorted(TargetsOf(instance, itemset))[i])]

\* sender.objects.filter(source=instance), narrowed to pk_set when it is truthy
FilterItems(db, instance, pk_set) ==
    LET all == {it \in db.AB : SourcePk(instance, it) = instance.pk}
    IN  IF pk_set # {} THEN {it \in all : TargetPk(instance, it) \in pk_set} ELSE all

\* one of the two reconciliation loops: a change record for the target of
\* every item of `these` whose target is the target of no item of `those`
RECURSIVE Reconcile(_, _, _, _, _)
Reconcile(h, c, instance, these, those) ==
    IF these = << >> \/ h.error # NoError THEN h
    ELSE LET target == TargetPk(instance, Head(these))
             h1 == IF ~Exists(c.db, TargetModel(instance), target)
                   THEN [h EXCEPT !.error = "DoesNotExist"]
                   ELSE IF has_m2m_field(TargetModel(instance), "AB")
                           /\ target \notin TargetsOf(instance, those)
                   THEN create_historical_record(
                            h, c, LoadTarget(c.db, TargetModel(instance), target), "~")
                   ELSE h
         IN  Reconcile(h1, c, instance, Tail(these), those)

\* hs = [h, stash]: the historical tables and the instance's __pre_clear_items
m2m_changed(hs, c, action, instance, pk_set) ==
    LET items == FilterItems(c.db, instance, pk_set)
        loaded == [i \in 1..Len(ItemSeq(instance, items)) |->
                      LoadAB(ItemSeq(instance, items)[i])]
        h1 == IF action = "post_add" THEN RecordEach(hs.h, c, loaded, "+")
              ELSE IF action \in {"pre_remove", "pre_clear"}
              THEN RecordEach(hs.h, c, loaded, "-")
              ELSE hs.h
    IN  IF h1.error # NoError THEN [hs EXCEPT !.h = h1]
        ELSE IF action = "pre_clear"
        THEN [h |-> h1, stash |-> [set |-> TRUE, items |-> items]]
        ELSE IF action = "post_add" /\ hs.stash.set
        THEN LET other_items == hs.stash.items
                 h2 == Reconcile(h1, c, instance,
                                 ItemSeq(instance, other_items), items)
                 h3 == Reconcile(h2, c, instance,
                                 ItemSeq(instance, items), other_items)
             IN  IF h3.error # NoError THEN [hs EXCEPT !.h = h3]
                 ELSE [h |-> h3, stash |-> NoStash]
        ELSE [hs EXCEPT !.h = h1]

\* ------------------------------------------------------------- class creation
\* A HistoricalRecords attribute of a model class, as contribute_to_class
\* leaves it: its cls and the options the registration reads.
Records(cls, inherit, m2m_fields) ==
    [cls |-> cls, inherit |-> inherit, m2m_fields |-> m2m_fields]

\* gc = [g, connected]
contribute_to_class(gc, records) ==
    IF gc.g.error # NoError THEN gc
    ELSE [g |-> setup_m2m_history(gc.g, records, records.cls),
          connected |-> Append(gc.connected, records)]

RECURSIVE ContributeAll(_, _)
ContributeAll(gc, recs) ==
    IF recs = << >> THEN gc
    ELSE ContributeAll(contribute_to_class(gc, Head(recs)), Tail(recs))

\* the signal class_prepared: every connected finalize is called with the sender
RECURSIVE class_prepared(_, _, _)
class_prepared(g, receivers, sender) ==
    IF receivers = << >> THEN g
    ELSE class_prepared(finalize(g, Head(receivers), sender), Tail(receivers), sender)

\* the creation of model class m with the HistoricalRecords attributes recs
DefineClass(gc, m, recs) ==
    LET gc1 == ContributeAll(gc, recs)
    IN  [g |-> class_prepared(gc1.g, gc1.connected, m), connected |-> gc1.connected]

\* the application's models module: B and A each with one HistoricalRecords
\* attribute (A's with m2m_fields), and the proxy P with none
ImportedModels ==
    DefineClass(
        DefineClass(
            DefineClass([g |-> EmptyRegistry, connected |-> << >>],
                        "B", <<Records("B", FALSE, FALSE)>>),
            "A", <<Records("A", FALSE, TRUE)>>),
        "P", << >>)

\* the same models module when B carries no HistoricalRecords attribute
ImportedModelsPlainB ==
    DefineClass(
        DefineClass(
            DefineClass([g |-> EmptyRegistry, connected |-> << >>], "B", << >>),
            "A", <<Records("A", FALSE, TRUE)>>),
        "P", << >>)

\* ------------------------------------------------------------- operations
H0 == [rows |-> hist, next |-> nextId, error |-> NoError]
Base == [m \in HistModels |-> Len(hist[m])]

\* a signal sent to the n sets of handlers connected for its sender
Dispatch(n, Handler(_), x) ==
    LET f[i \in 0..n] == IF i = 0 THEN x ELSE Handler(f[i - 1])
    IN  f[n]

Op(op, model, pk) ==
    [op |-> op, model |-> model, pk |-> pk, created |-> FALSE, skip |-> FALSE,
     raw |-> FALSE, error |-> NoError, base |-> Base, pk_set |-> {}, before |-> {},
     stashed |-> FALSE, history_date |-> NoDate, fk |-> Null, tracked |-> FALSE,
     unchanged |-> FALSE, cleared |-> NotCleared, history_user |-> Unset,
     thread |-> "none", after_raise |-> FALSE]

FkVals == {Null} \cup RPks
UserAttrs == {Unset, None} \cup Users
DateAttrs == {NoDate} \cup (0..MaxClock)

InstanceOf(m, pk, fk, hu, hd, skip) ==
    Instance(m, pk, IF m = "B" THEN [id |-> pk] ELSE [id |-> pk, fk_id |-> fk],
             hu, hd, skip)

\* the row of the instance written to its table
WriteRow(db, m, pk, fk) ==
    IF m = "B" THEN [db EXCEPT !.B = @ \cup {pk}]
    ELSE [db EXCEPT !.A = [p \in DOMAIN @ \cup {pk} |-> IF p = pk THEN fk ELSE @[p]]]

\* the in-memory object of a row: the key of its attributes
ObjectOf(m, pk) == <<OriginalClass(m), pk>>

\* the attribute after the call if the del were not in a finally clause
AttributeAfterSkip_NoFinally(raised) == raised

\* save_without_historical_record: whether the object has the attribute
\* skip_history_when_saving after the call, the save having raised or not
AttributeAfterSkip(raised) == FALSE

\* Model.save_base: the row is inserted or updated, then post_save is sent.
\* A save into a live table whose foreign key has no row fails before that.
\* skip: the save is the one save_without_historical_record() makes.
SaveBase(t, m, pk, fk, hu, hd, skip, raw, op) ==
    /\ m \in prepared
    /\ m = "B" => fk = Null
    /\ fk = Null \/ fk \in live.R
    /\ LET created == ~Exists(live, m, pk)
           db == WriteRow(live, m, pk, fk)
           instance == InstanceOf(m, pk, fk, hu, hd,
                                  skip \/ skip_history_when_saving[ObjectOf(m, pk)])
           c == Context(reg, db, t)
           h == Dispatch(reg.handlers[m],
                         LAMBDA x : post_save(x, c, instance, created, raw), H0)
       IN  /\ live' = db
           /\ hist' = h.rows
           /\ nextId' = h.next
           /\ skip_history_when_saving' =
                 [skip_history_when_saving EXCEPT ![ObjectOf(m, pk)] =
                     IF skip THEN AttributeAfterSkip(h.error # NoError) ELSE @]
           /\ lastOp' = [Op(op, m, pk) EXCEPT !.created = created, !.skip = skip,
                             !.raw = raw, !.error = h.error, !.history_date = hd,
                             !.fk = fk, !.history_user = hu, !.thread = t,
                             !.after_raise = /\ lastOp.op = "save"
                                             /\ lastOp.skip
                                             /\ lastOp.error # NoError
                                             /\ ObjectOf(lastOp.model, lastOp.pk)
                                                   = ObjectOf(m, pk)]
    /\ UNCHANGED <<reg, connected, prepared, stash, clock, request, cleared>>

\* instance.save()
Save(t, m, pk, fk, hu, hd) ==
    SaveBase(t, m, pk, fk, hu, hd, FALSE, FALSE, "save")

\* instance.save_without_historical_record(): the attribute
\* skip_history_when_saving is set, save() runs, the attribute is deleted
save_without_historical_record(t, m, pk, fk, hu, hd) ==
    SaveBase(t, m, pk, fk, hu, hd, TRUE, FALSE, "save")

\* a deserialized object saved by loaddata: save_base(raw=True)
LoadRaw(t, m, pk, fk) ==
    SaveBase(t, m, pk, fk, Unset, NoDate, FALSE, TRUE, "save_base_raw")

\* the rows a delete of the instance removes: its own and its through rows
DeleteRows(db, m, pk) ==
    IF m = "B"
    THEN [db EXCEPT !.B = @ \ {pk}, !.AB = {it \in @ : it[2] # pk}]
    ELSE [db EXCEPT !.A = [p \in DOMAIN @ \ {pk} |-> @[p]],
                    !.AB = {it \in @ : it[1] # pk}]

\* instance.delete(): in one transaction, pre_delete is sent, the rows are
\* deleted (no signal is sent for rows of an auto-created through model),
\* post_delete is sent.  An exception rolls the transaction back.
Delete(t, m, pk, fk, hu, hd) ==
    /\ m \in prepared
    /\ Exists(live, m, pk)
    /\ m = "B" => fk = Null
    /\ LET instance == InstanceOf(m, pk, fk, hu, hd, FALSE)
           db == DeleteRows(live, m, pk)
           h1 == Dispatch(reg.handlers[m],
                          LAMBDA x : pre_delete(x, Context(reg, live, t), instance), H0)
           h1d == IF DeleteRefused(h1.rows, OriginalClass(m), pk) /\ h1.error = NoError
                  THEN [h1 EXCEPT !.error = "IntegrityError"]
                  ELSE [h1 EXCEPT !.rows = HistoricalOnDelete(@, OriginalClass(m), pk)]
           h2 == Dispatch(reg.handlers[m],
                          LAMBDA x : post_delete(x, Context(reg, db, t), instance), h1d)
       IN  /\ IF h2.error = NoError
              THEN live' = db /\ hist' = h2.rows /\ nextId' = h2.next
              ELSE UNCHANGED <<live, hist, nextId>>
           /\ lastOp' = [Op("delete", m, pk) EXCEPT !.error = h2.error,
                             !.history_date = hd, !.fk = fk,
                             !.history_user = hu, !.thread = t,
                             !.before = IF m = "B" THEN {}
                                        ELSE {it[2] : it \in {x \in live.AB : x[1] = pk}}]
    /\ UNCHANGED <<skip_history_when_saving,
                   reg, connected, prepared, stash, clock, request, cleared>>

\* deleting a row of R: the foreign keys of A that refer to it are set to
\* null by an update query (SET_NULL); no signal of a tracked model is sent
DeleteR(pk) ==
    /\ pk \in live.R
    /\ IF DeleteRefused(hist, "R", pk)
       THEN /\ UNCHANGED <<live, hist>>
            /\ lastOp' = [Op("delete_r", "R", pk) EXCEPT !.error = "IntegrityError"]
       ELSE /\ live' = [live EXCEPT !.R = @ \ {pk},
                        !.A = [p \in DOMAIN @ |-> IF @[p] = pk THEN Null ELSE @[p]]]
            /\ hist' = HistoricalOnDelete(hist, "R", pk)
            /\ lastOp' = Op("delete_r", "R", pk)
    /\ UNCHANGED <<skip_history_when_saving,
                   reg, connected, prepared, nextId, stash, clock, request, cleared>>

\* history_user if it were a foreign key with on_delete=CASCADE
SetNullUser_Cascade(rows, u) ==
    [m \in HistModels |-> SelectSeq(rows[m], LAMBDA r : r.history_user # u)]

\* deleting a user: history_user is a foreign key with on_delete=SET_NULL
SetNullUser(rows, u) ==
    [m \in HistModels |->
        [i \in 1..Len(rows[m]) |->
            IF rows[m][i].history_user = u
            THEN [rows[m][i] EXCEPT !.history_user = None]
            ELSE rows[m][i]]]

DeleteUser(u) ==
    /\ u \in live.U
    /\ live' = [live EXCEPT !.U = @ \ {u}]
    /\ hist' = SetNullUser(hist, u)
    /\ lastOp' = [Op("delete_user", "U", 0) EXCEPT
                     !.before = {hist["A"][i].history_id : i \in
                                   {j \in 1..Len(hist["A"]) :
                                       hist["A"][j].history_user = u}}]
    /\ UNCHANGED <<skip_history_when_saving,
                   reg, connected, prepared, nextId, stash, clock, request, cleared>>

CreateUser(u) ==
    /\ u \notin live.U
    /\ live' = [live EXCEPT !.U = @ \cup {u}]
    /\ lastOp' = Op("create_user", "U", 0)
    /\ UNCHANGED <<skip_history_when_saving,
                   reg, connected, prepared, hist, nextId, stash, clock, request,
                   cleared>>

\* ---- the related managers
TargetPks(inst) == IF inst[1] = "B" THEN APks ELSE BPks
ManagerInstance(inst) ==
    IF inst[1] = "B" THEN LoadB(inst[2]) ELSE LoadA(live, inst[2])
\* the targets the instance is related to
Members(db, instance) ==
    TargetsOf(instance, {it \in db.AB : SourcePk(instance, it) = instance.pk})

M2MOp(op, inst, pk_set, h, st, db) ==
    /\ IF h.error = NoError
       THEN /\ live' = db
            /\ hist' = h.rows
            /\ nextId' = h.next
            /\ stash' = [stash EXCEPT ![inst] = st]
       ELSE UNCHANGED <<live, hist, nextId, stash>>
    /\ lastOp' = [Op(op, inst[1], inst[2]) EXCEPT
                     !.error = h.error, !.pk_set = pk_set,
                     !.before = Members(live, ManagerInstance(inst)),
                     !.stashed = stash[inst].set,
                     !.cleared = cleared[inst]]
    /\ cleared' = [cleared EXCEPT ![inst] =
                      IF h.error # NoError THEN @
                      ELSE IF op = "clear"
                      THEN [set |-> TRUE,
                            members |-> Members(live, ManagerInstance(inst))]
                      ELSE NotCleared]
    /\ UNCHANGED <<skip_history_when_saving,
                   reg, connected, prepared, clock, request>>

\* manager.add(*objs): the objects not yet related are new_ids; pre_add is
\* sent, their through rows are inserted, post_add is sent, both with
\* pk_set = new_ids, in one transaction.  Nothing is sent when objs is empty.
M2MAdd(t, inst, objs) ==
    /\ Exists(live, inst[1], inst[2])
    /\ objs # {}
    /\ \A o \in objs : Exists(live, TargetModel(ManagerInstance(inst)), o)
    /\ LET instance == ManagerInstance(inst)
           new_ids == objs \ Members(live, instance)
           db == [live EXCEPT !.AB = @ \cup {ItemOf(instance, o) : o \in new_ids}]
           hs0 == [h |-> H0, stash |-> stash[inst]]
           hs1 == Dispatch(reg.handlers["AB"],
                      LAMBDA x : m2m_changed(x, Context(reg, live, t),
                                             "pre_add", instance, new_ids), hs0)
           hs2 == Dispatch(reg.handlers["AB"],
                      LAMBDA x : m2m_changed(x, Context(reg, db, t),
                                             "post_add", instance, new_ids), hs1)
       IN  M2MOp("add", inst, new_ids, hs2.h, hs2.stash, db)

\* manager.remove(*objs): pre_remove is sent with the pks of objs, the
\* through rows are deleted, post_remove is sent
M2MRemove(t, inst, objs) ==
    /\ Exists(live, inst[1], inst[2])
    /\ objs # {}
    /\ LET instance == ManagerInstance(inst)
           db == [live EXCEPT !.AB = @ \ {ItemOf(instance, o) : o \in objs}]
           hs0 == [h |-> H0, stash |-> stash[inst]]
           hs1 == Dispatch(reg.handlers["AB"],
                      LAMBDA x : m2m_changed(x, Context(reg, live, t),
                                             "pre_remove", instance, objs), hs0)
           hs2 == Dispatch(reg.handlers["AB"],
                      LAMBDA x : m2m_changed(x, Context(reg, db, t),
                                             "post_remove", instance, objs), hs1)
       IN  M2MOp("remove", inst, objs, hs2.h, hs2.stash, db)

\* manager.clear(): pre_clear is sent with pk_set None, every through row of
\* the instance is deleted, post_clear is sent
M2MClear(t, inst) ==
    /\ Exists(live, inst[1], inst[2])
    /\ LET instance == ManagerInstance(inst)
           db == [live EXCEPT !.AB = {it \in @ : SourcePk(instance, it) # instance.pk}]
           hs0 == [h |-> H0, stash |-> stash[inst]]
           hs1 == Dispatch(reg.handlers["AB"],
                      LAMBDA x : m2m_changed(x, Context(reg, live, t),
                                             "pre_clear", instance, {}), hs0)
           hs2 == Dispatch(reg.handlers["AB"],
                      LAMBDA x : m2m_changed(x, Context(reg, db, t),
                                             "post_clear", instance, {}), hs1)
       IN  M2MOp("clear", inst, {}, hs2.h, hs2.stash, db)

\* ---- the environment
Tick ==
    /\ clock < MaxClock
    /\ clock' = clock + 1
    /\ lastOp' = Op("tick", "none", 0)
    /\ UNCHANGED <<skip_history_when_saving,
                   reg, connected, prepared, live, hist, nextId, stash, request,
                   cleared>>

RequestValues == {"norequest", "nouser", "anon"} \cup Users

\* the middleware stores the request of the thread
SetRequest(t, v) ==
    /\ request[t] # v
    /\ request' = [request EXCEPT ![t] = v]
    /\ lastOp' = Op("set_request", "none", 0)
    /\ UNCHANGED <<skip_history_when_saving,
                   reg, connected, prepared, live, hist, nextId, stash, clock,
                   cleared>>

\* ---- registration
\* simple_history.register(model): the call, and whether the model was tracked
Register(m, m2m_fields) ==
    /\ m \in prepared
    /\ LET g == register([reg EXCEPT !.error = NoError], m,
                         [DefaultConfig EXCEPT !.m2m_fields = m2m_fields])
       IN  /\ reg' = g
           /\ lastOp' = [Op("register", m, 0) EXCEPT
                            !.error = g.error,
                            !.tracked = m \in reg.attr,
                            !.unchanged = ([g EXCEPT !.error = NoError]
                                           = [reg EXCEPT !.error = NoError])]
    /\ UNCHANGED <<skip_history_when_saving,
                   connected, prepared, live, hist, nextId, stash, clock, request,
                   cleared>>

\* the creation of model class m with k HistoricalRecords attributes
DefineModel(m, k, inherit, m2m_fields) ==
    /\ m \in {"A", "B", "P"} \ prepared
    /\ "ImportError" \notin prepared
    /\ m = "A" => "B" \in prepared
    /\ m = "P" => "A" \in prepared
    /\ LET recs == [i \in 1..k |-> Records(m, inherit, m2m_fields)]
           gc == DefineClass([g |-> [reg EXCEPT !.error = NoError],
                              connected |-> connected], m, recs)
       IN  /\ reg' = gc.g
           /\ connected' = gc.connected
           /\ prepared' = prepared \cup (IF gc.g.error # NoError THEN {"ImportError"}
                                         ELSE IF m = "A" THEN {"A", "AB"} ELSE {m})
           /\ lastOp' = [Op("define", m, k) EXCEPT !.error = gc.g.error]
    /\ UNCHANGED <<skip_history_when_saving,
                   live, hist, nextId, stash, clock, request, cleared>>

\* ------------------------------------------------------------- specifications
EmptyTables == [A |-> << >>, B |-> {}, R |-> RPks, AB |-> {}, U |-> Users]

InitData ==
    /\ live = EmptyTables
    /\ hist = [m \in HistModels |-> << >>]
    /\ nextId = [m \in HistModels |-> 1]
    /\ stash = [inst \in Instances |-> NoStash]
    /\ cleared = [inst \in Instances |-> NotCleared]
    /\ skip_history_when_saving = [inst \in Instances |-> FALSE]
    /\ clock = 0
    /\ request = [t \in AllThreads |-> "norequest"]

InitOp ==
    [op |-> "init", model |-> "none", pk |-> 0, created |-> FALSE,
     skip |-> FALSE, raw |-> FALSE, error |-> NoError,
     base |-> [m \in HistModels |-> 0], pk_set |-> {}, before |-> {},
     stashed |-> FALSE, history_date |-> NoDate, fk |-> Null, tracked |-> FALSE,
     unchanged |-> FALSE, cleared |-> NotCleared, history_user |-> Unset,
     thread |-> "none", after_raise |-> FALSE]

\* the state once the application's models are imported
Init ==
    /\ reg = ImportedModels.g
    /\ connected = ImportedModels.connected
    /\ prepared = Models
    /\ InitData
    /\ lastOp = InitOp

PksOf(m) == IF m = "B" THEN BPks ELSE APks
FksOf(m, FK) == IF m = "B" THEN {Null} ELSE FK

\* save(), save_without_historical_record() and delete() of the instances of
\* the models MS with a pk in PK, with the foreign key drawn from FK,
\* _history_user from HU and _history_date from HD
Crud(MS, PK, FK, HU, HD) ==
    \E t \in Threads, m \in MS :
        \E pk \in PksOf(m) \cap PK, fk \in FksOf(m, FK), hu \in HU, hd \in HD :
            \/ Save(t, m, pk, fk, hu, hd)
            \/ save_without_historical_record(t, m, pk, fk, hu, hd)
            \/ Delete(t, m, pk, fk, hu, hd)

Load(MS, PK, FK) ==
    \E t \in Threads, m \in MS :
        \E pk \in PksOf(m) \cap PK, fk \in FksOf(m, FK) : LoadRaw(t, m, pk, fk)

\* the related managers of the instances INSTS
M2M(INSTS) ==
    \E t \in Threads, inst \in INSTS :
        \/ \E objs \in SUBSET TargetPks(inst) : M2MAdd(t, inst, objs)
        \/ \E objs \in SUBSET TargetPks(inst) : M2MRemove(t, inst, objs)
        \/ M2MClear(t, inst)

\* the run writes at most n historical rows
Within(n) == TotalRows(hist') <= n

\* Spec: saves and deletes of A instances at the current time
Next ==
    /\ \/ Crud({"A"}, APks, {Null}, {Unset}, {NoDate})
       \/ Load({"A"}, APks, {Null})
    /\ Within(MaxHist)

Spec == Init /\ [][Next]_vars

\* SpecDate: saves and deletes of A instances, with and without
\* _history_date, while the clock advances
NextDate ==
    /\ \/ Crud({"A"}, APks, {Null}, {Unset}, DateAttrs)
       \/ Tick
    /\ Within(MaxHistDate)

SpecDate == Init /\ [][NextDate]_vars

\* SpecFk: saves and deletes of the A instance with pk 1 and of the rows of R
\* its foreign key refers to
NextFk ==
    /\ \/ Crud({"A"}, {1}, FkVals, {Unset}, {NoDate})
       \/ Load({"A"}, {1}, FkVals)
       \/ \E pk \in RPks : DeleteR(pk)
    /\ Within(MaxHistFk)

SpecFk == Init /\ [][NextFk]_vars

\* SpecAll: every kind of operation on live data, on the instances with pk 1
\* and through the related manager of the A instance, by users that are
\* deleted later
NextAll ==
    /\ \/ Crud({"A", "B"}, {1}, {Null}, {Unset} \cup Users, {NoDate})
       \/ Load({"A", "B"}, {1}, {Null})
       \/ \E u \in Users : DeleteUser(u)
       \/ M2M({<<"A", 1>>})
       \/ \E m \in Models : Register(m, FALSE)
    /\ Within(MaxHistAll)

SpecAll == Init /\ [][NextAll]_vars

\* SpecM2M: the related managers, on a database that was filled before the
\* models were tracked
InitM2M ==
    /\ reg = ImportedModels.g
    /\ connected = ImportedModels.connected
    /\ prepared = Models
    /\ live \in {[EmptyTables EXCEPT !.A = [p \in APks |-> Null], !.B = BPks, !.AB = ab] :
                    ab \in SUBSET (APks \X BPks)}
    /\ hist = [m \in HistModels |-> << >>]
    /\ nextId = [m \in HistModels |-> 1]
    /\ stash = [inst \in Instances |-> NoStash]
    /\ cleared = [inst \in Instances |-> NotCleared]
    /\ skip_history_when_saving = [inst \in Instances |-> FALSE]
    /\ clock = 0
    /\ request = [t \in AllThreads |-> "norequest"]
    /\ lastOp = InitOp

NextM2M ==
    /\ M2M(Instances)
    /\ Within(MaxHistM2M)

SpecM2M == InitM2M /\ [][NextM2M]_vars

\* SpecDel: deletions of related instances, B tracked or not
InitDel ==
    /\ \E gc \in {ImportedModels, ImportedModelsPlainB} :
          reg = gc.g /\ connected = gc.connected
    /\ prepared = Models
    /\ live \in {[EmptyTables EXCEPT !.A = [p \in APks |-> Null], !.B = BPks, !.AB = ab] :
                    ab \in SUBSET (APks \X BPks)}
    /\ hist = [m \in HistModels |-> << >>]
    /\ nextId = [m \in HistModels |-> 1]
    /\ stash = [inst \in Instances |-> NoStash]
    /\ cleared = [inst \in Instances |-> NotCleared]
    /\ skip_history_when_saving = [inst \in Instances |-> FALSE]
    /\ clock = 0
    /\ request = [t \in AllThreads |-> "norequest"]
    /\ lastOp = InitOp

NextDel ==
    /\ \/ \E t \in Threads, m \in {"A", "B"} : \E pk \in PksOf(m) :
             Delete(t, m, pk, Null, Unset, NoDate)
       \/ \E t \in Threads, m \in {"A", "B"} : \E pk \in PksOf(m) :
             Save(t, m, pk, Null, Unset, NoDate)
       \/ \E t \in Threads, inst \in Instances :
             \E objs \in SUBSET TargetPks(inst) : M2MAdd(t, inst, objs)
    /\ Within(MaxHistDel)

SpecDel == InitDel /\ [][NextDel]_vars

\* SpecUser: saves and deletes of one instance by two threads, each with the
\* request its middleware stored
NextUser ==
    /\ \/ \E t \in AllThreads, hu \in UserAttrs :
             \/ Save(t, "A", 1, Null, hu, NoDate)
             \/ save_without_historical_record(t, "A", 1, Null, hu, NoDate)
             \/ Delete(t, "A", 1, Null, hu, NoDate)
       \/ \E t \in AllThreads, v \in RequestValues : SetRequest(t, v)
    /\ Within(MaxHistUser)

SpecUser == Init /\ [][NextUser]_vars

\* SpecReg: the registration of the models, from an empty registry
InitReg ==
    /\ reg = EmptyRegistry
    /\ connected = << >>
    /\ prepared = {}
    /\ InitData
    /\ lastOp = InitOp

NextReg ==
    /\ \/ \E m \in Models, k \in 0..MaxAttrs, inherit \in BOOLEAN, f \in BOOLEAN :
             /\ inherit => m = "A"
             /\ f => m \in {"A", "P"}
             /\ DefineModel(m, k, inherit, f)
       \/ \E m \in Models, f \in BOOLEAN :
             /\ f => m \in {"A", "P"}
             /\ Register(m, f)
       \/ \E t \in Threads, m \in {"A", "B", "P"} :
             Save(t, m, 1, Null, Unset, NoDate)
    /\ Within(MaxHistReg)

SpecReg == InitReg /\ [][NextReg]_vars

\* ------------------------------------------------------------- properties
\* the rows the last operation appended to historical table m
Written(m) == SubSeq(hist[m], lastOp.base[m] + 1, Len(hist[m]))
\* the snapshots of the instance of the last operation among them
WrittenOfInstance ==
    SelectSeq(Written(ManagerOf(reg, lastOp.model)),
              LAMBDA r : r.attrs.id = lastOp.pk)
Completed(ops) == lastOp.op \in ops /\ lastOp.error = NoError

\* C1 as stated: after any save() or delete() of a tracked instance
\* completes, the historical table holds exactly one more snapshot of that
\* instance than before the call.
C1_EverySaveAndDeleteAppends ==
    Completed({"save", "delete"}) => Len(WrittenOfInstance) = 1

\* C1 as amended: a save() that inserts the row, a save() that updates it
\* while the instance has no attribute skip_history_when_saving, and a
\* delete() each append exactly one snapshot of the instance; an update
\* saved through save_without_historical_record() appends none.
C1_SaveAndDeleteAppendUnlessSkipped ==
    Completed({"save", "delete"}) =>
        Len(WrittenOfInstance) =
            (IF lastOp.op = "save" /\ ~lastOp.created /\ lastOp.skip THEN 0 ELSE 1)

C1_Witness ==
    /\ Completed({"delete"})
    /\ Len(WrittenOfInstance) = 1
    /\ lastOp.base["A"] >= 2

\* C3: every snapshot's history_type is one of '+', '~', '-'; the snapshot a
\* save writes is tagged '+' when the save created the row and '~' when it
\* updated it, and the snapshot a delete writes is tagged '-'.
C3_ChangeKindTags ==
    /\ \A m \in HistModels : \A i \in 1..Len(hist[m]) :
          hist[m][i].history_type \in HistoryTypes
    /\ Completed({"save", "delete"}) =>
          \A i \in 1..Len(WrittenOfInstance) :
              WrittenOfInstance[i].history_type =
                  (IF lastOp.op = "delete" THEN "-"
                   ELSE IF lastOp.created THEN "+" ELSE "~")

C3_Witness ==
    /\ Completed({"save"})
    /\ ~lastOp.created
    /\ Len(WrittenOfInstance) = 1
    /\ WrittenOfInstance[1].history_type = "~"
    /\ \E i \in 1..Len(hist["A"]) : hist["A"][i].history_type = "-"

\* C6: within one historical table history_id increases strictly in the
\* order the snapshots were written, so no two snapshots share one.
C6_HistoryIdIncreases ==
    \A m \in HistModels : \A i, j \in 1..Len(hist[m]) :
        i < j => hist[m][i].history_id < hist[m][j].history_id

C6_Witness ==
    /\ Len(hist["A"]) >= 3
    /\ \E i, j \in 1..Len(hist["A"]) : hist["A"][i].attrs.id # hist["A"][j].attrs.id

\* C7 as stated: save_without_historical_record() writes no historical
\* record, whether it inserts the row or updates it.
C7_NoRecordWhenSkipping ==
    (Completed({"save"}) /\ lastOp.skip) => Len(WrittenOfInstance) = 0

\* C5 as stated: of any two snapshots of the same entity, the one written
\* later comes before the one written earlier in the default order.
C5_LaterWrittenComesFirst ==
    \A i, j \in 1..Len(hist["A"]) :
        (i < j /\ hist["A"][i].attrs.id = hist["A"][j].attrs.id)
            => ComesBefore(hist["A"][j], hist["A"][i])

\* C5 as amended: of any two snapshots of the same entity, the one written
\* later comes before the one written earlier whenever its history_date is
\* not the earlier of the two (equal dates are ordered by history_id); and a
\* snapshot of an instance without _history_date gets the current time.
C5_LaterWrittenComesFirstUnlessBackdated ==
    /\ \A i, j \in 1..Len(hist["A"]) :
          (/\ i < j
           /\ hist["A"][i].attrs.id = hist["A"][j].attrs.id
           /\ hist["A"][i].history_date <= hist["A"][j].history_date)
              => ComesBefore(hist["A"][j], hist["A"][i])
    /\ (Completed({"save", "delete"}) /\ lastOp.history_date = NoDate)
          => \A i \in 1..Len(WrittenOfInstance) :
                WrittenOfInstance[i].history_date = clock

C5_Witness ==
    /\ \E i, j \in 1..Len(hist["A"]) :
          /\ i < j
          /\ hist["A"][i].attrs.id = hist["A"][j].attrs.id
          /\ hist["A"][i].history_date = hist["A"][j].history_date
    /\ \E i, j \in 1..Len(hist["A"]) :
          /\ i < j
          /\ hist["A"][i].attrs.id = hist["A"][j].attrs.id
          /\ hist["A"][i].history_date > hist["A"][j].history_date

\* C2 as stated: no operation changes a field of a snapshot that has been
\* written or removes it.
C2_SnapshotsNeverChange ==
    [][\A m \in HistModels :
          /\ Len(hist'[m]) >= Len(hist[m])
          /\ \A i \in 1..Len(hist[m]) : hist'[m][i] = hist[m][i]]_vars

\* C2 as amended: no operation removes a snapshot or changes any of its
\* fields, except that the deletion of a user sets history_user to null in
\* the snapshots that user is the acting user of.
C2_SnapshotsChangeOnlyByUserDeletion ==
    [][\A m \in HistModels :
          /\ Len(hist'[m]) >= Len(hist[m])
          /\ \A i \in 1..Len(hist[m]) :
                \/ hist'[m][i] = hist[m][i]
                \/ /\ hist[m][i].history_user \in live.U \ live'.U
                   /\ hist'[m][i] = [hist[m][i] EXCEPT !.history_user = None]]_vars

C2_Witness ==
    /\ lastOp.op = "delete_user"
    /\ lastOp.before # {}
    /\ \A i \in 1..Len(hist["A"]) :
          hist["A"][i].history_id \in lastOp.before
              => hist["A"][i].history_user = None

\* C10: the deletion of a row that a snapshot's copied foreign key refers to
\* succeeds and leaves every snapshot as it is, and a delete() of an instance
\* whose foreign key refers to a missing row writes the snapshot with that key.
C10_CopiedForeignKeysUnconstrained ==
    [][/\ lastOp'.op = "delete_r" =>
             /\ lastOp'.error = NoError
             /\ lastOp'.pk \notin live'.R
             /\ hist' = hist
       /\ (lastOp'.op = "delete" /\ lastOp'.fk # Null /\ lastOp'.fk \notin live'.R) =>
             /\ lastOp'.error = NoError
             /\ Len(hist'["A"]) = Len(hist["A"]) + 1
             /\ hist'["A"][Len(hist'["A"])].attrs.fk_id = lastOp'.fk]_vars

C10_Witness ==
    /\ Completed({"delete"})
    /\ lastOp.fk # Null /\ lastOp.fk \notin live.R
    /\ Len(WrittenOfInstance) = 1
    /\ WrittenOfInstance[1].attrs.fk_id = lastOp.fk
    /\ \E i \in 1..lastOp.base["A"] : hist["A"][i].attrs.fk_id = lastOp.fk

\* C4 as stated: a second registration of a model, by a second
\* HistoricalRecords attribute or by a second register() call, raises
\* MultipleRegistrationsError and leaves the first registration in effect.
C4_SecondRegistrationRaises ==
    ((lastOp.op = "register" /\ lastOp.tracked)
        \/ (lastOp.op = "define" /\ lastOp.pk >= 2 /\ lastOp.model \in reg.attr))
    => /\ lastOp.error = "MultipleRegistrationsError"
       /\ lastOp.model \in reg.attr
       /\ reg.handlers[lastOp.model] = 1

\* the instance whose related manager the last operation went through
LastInstance == [model |-> lastOp.model, pk |-> lastOp.pk]

\* C9 as stated: an add writes a '+' snapshot for exactly the through rows that
\* link the instance to a target in pk_set, a remove a '-' snapshot for exactly
\* the through rows that link it to a target in pk_set, a clear a '-' snapshot
\* for every through row of the instance, and no other through row gets one.
C9_ExactlyAffectedThroughRows ==
    Completed({"add", "remove", "clear"}) =>
        LET affected == IF lastOp.op = "add" THEN lastOp.pk_set
                        ELSE IF lastOp.op = "remove"
                        THEN lastOp.pk_set \cap lastOp.before
                        ELSE lastOp.before
            W == Written("AB")
        IN  /\ Len(W) = Cardinality(affected)
            /\ \A i \in 1..Len(W) :
                  W[i].history_type = (IF lastOp.op = "add" THEN "+" ELSE "-")
            /\ {<<W[i].attrs.a_id, W[i].attrs.b_id>> : i \in 1..Len(W)}
                  = {ItemOf(LastInstance, o) : o \in affected}

\* C8 as stated: an add that follows a clear on the same instance writes a '~'
\* snapshot for exactly the related rows that are in the membership before the
\* clear or in the membership after the add but not in both, one each, when
\* their model declares the relationship, and for no other related row.
C8_MinimalChangeRecords ==
    (Completed({"add"}) /\ lastOp.cleared.set) =>
        LET old == lastOp.cleared.members
            new == Members(live, LastInstance)
            changed == IF has_m2m_field(TargetModel(LastInstance), "AB")
                       THEN (old \ new) \cup (new \ old) ELSE {}
            W == SelectSeq(Written(TargetModel(LastInstance)),
                           LAMBDA r : r.history_type = "~")
        IN  /\ Len(W) = Cardinality(changed)
            /\ {W[i].attrs.id : i \in 1..Len(W)} = changed

\* C11 as stated: a delete of a tracked instance writes, for every
\* many-to-many field of the instance whose through model is tracked, a '-'
\* snapshot for each through row of the instance and a '~' snapshot for each
\* related object, all of them before the instance's own '-' snapshot.
C11_DeleteRecordsRelationsFirst ==
    (lastOp.op = "delete" /\ lastOp.model \in reg.attr) =>
        LET m2m == many_to_many(lastOp.model)
            related == IF \E i \in 1..Len(m2m) : m2m[i] \in reg.attr
                       THEN lastOp.before ELSE {}
            own == WrittenOfInstance
            WAB == Written("AB")
            WB == Written("B")
        IN  /\ lastOp.error = NoError
            /\ Len(own) = 1
            /\ own[1].history_type = "-"
            /\ Len(WAB) = Cardinality(related)
            /\ \A b \in related :
                  /\ \E i \in 1..Len(WAB) :
                        /\ WAB[i].attrs = [a_id |-> lastOp.pk, b_id |-> b]
                        /\ WAB[i].history_type = "-"
                        /\ WAB[i].seq < own[1].seq
                  /\ \E i \in 1..Len(WB) :
                        /\ WB[i].attrs.id = b
                        /\ WB[i].history_type = "~"
                        /\ WB[i].seq < own[1].seq
            /\ lastOp.model # "B" => Len(WB) = Cardinality(related)

\* the instances reconstructed from the snapshots of A
Reconstructed ==
    [i \in 1..Len(hist["A"]) |->
        [instance |-> get_instance(hist["A"][i], "A"),
         values |-> history_object(hist["A"][i], "A")]]

\* C12: the instance reconstructed from a snapshot has, for every field, the
\* value the tracked instance had when the snapshot was written, and no later
\* operation on the live rows changes what is reconstructed from it.
C12_ReconstructionRoundTrips ==
    [][/\ \A i \in 1..Len(hist["A"]) :
             /\ i <= Len(hist'["A"])
             /\ Reconstructed'[i] = Reconstructed[i]
       /\ (lastOp'.op \in {"save", "delete"} /\ lastOp'.error = NoError) =>
             \A i \in (Len(hist["A"]) + 1)..Len(hist'["A"]) :
                /\ Reconstructed'[i].instance
                      = [id |-> lastOp'.pk, fk_id |-> lastOp'.fk]
                /\ Reconstructed'[i].values = <<lastOp'.pk, lastOp'.fk>>]_vars

C12_Witness ==
    \E i \in 1..Len(hist["A"]) :
        /\ hist["A"][i].attrs.id \in DOMAIN live.A
        /\ Reconstructed[i].instance.fk_id # live.A[hist["A"][i].attrs.id]
        /\ Reconstructed[i].instance.fk_id \notin live.R \cup {Null}

\* C13: the acting user of a snapshot is the instance's _history_user when
\* that attribute is set, else the user of the request stored for the thread
\* when that user is authenticated, else none.
C13_ActingUser ==
    Completed({"save", "delete"}) =>
        \A i \in 1..Len(WrittenOfInstance) :
            WrittenOfInstance[i].history_user =
                (IF lastOp.history_user # Unset THEN lastOp.history_user
                 ELSE IF request[lastOp.thread] \in Users THEN request[lastOp.thread]
                 ELSE None)

C13_Witness ==
    /\ Completed({"save", "delete"})
    /\ lastOp.history_user = Unset
    /\ Len(WrittenOfInstance) = 1
    /\ WrittenOfInstance[1].history_user \in Users
    /\ \E i \in 1..lastOp.base["A"] :
          /\ hist["A"][i].history_user = None
          /\ hist["A"][i].history_type = "+"

\* C18: a snapshot written by a thread for an instance without _history_user
\* carries the user of the request stored for that thread or none, and never
\* the user of the request of another thread.
C18_RequestPerThread ==
    (Completed({"save", "delete"}) /\ lastOp.history_user = Unset) =>
        \A i \in 1..Len(WrittenOfInstance) :
            /\ WrittenOfInstance[i].history_user \in {None, request[lastOp.thread]}
            /\ \A t \in AllThreads \ {lastOp.thread} :
                  request[t] # request[lastOp.thread]
                      => WrittenOfInstance[i].history_user # request[t]

C18_Witness ==
    /\ Completed({"save", "delete"})
    /\ lastOp.history_user = Unset
    /\ Len(WrittenOfInstance) = 1
    /\ WrittenOfInstance[1].history_user = None
    /\ \E t \in AllThreads \ {lastOp.thread} : request[t] \in Users

\* C14 as stated: once the proxy model P is set up for tracking, by a
\* HistoricalRecords attribute or by register(), the set-up has succeeded, its
\* parent A is tracked, P's history manager uses A's historical model, and a
\* save through P writes a snapshot into A's historical table.
C14_ProxyUsesParentHistory ==
    /\ (/\ lastOp.model = "P"
        /\ \/ lastOp.op = "register"
           \/ lastOp.op = "define" /\ lastOp.pk = 1
        /\ lastOp.error # "MultipleRegistrationsError")
       => /\ lastOp.error = NoError
          /\ {"A", "P"} \subseteq reg.attr
          /\ reg.handlers["P"] >= 1
          /\ reg.descriptor["P"] = reg.descriptor["A"]
    /\ (Completed({"save"}) /\ lastOp.model = "P" /\ "P" \in reg.attr)
       => /\ ManagerOf(reg, "P") = "A"
          /\ Len(WrittenOfInstance) >= 1

\* C15: after any sequence of registrations no model has more than one set
\* of history handlers, and a save of a tracked instance writes at most one
\* snapshot of it.
C15_OneSetOfHandlers ==
    /\ \A m \in Models : reg.handlers[m] <= 1
    /\ (Completed({"save"}) /\ lastOp.model \in reg.attr)
          => Len(WrittenOfInstance) <= 1

C15_Witness ==
    /\ Completed({"save"})
    /\ lastOp.model = "P"
    /\ \A m \in Models : reg.handlers[m] = 1
    /\ Len(WrittenOfInstance) = 1

\* C16 as stated: the stash an add reconciles against was left by a clear that
\* is the last many-to-many operation before the add on the same instance, and
\* after the add the instance has no stash.
C16_StashOnlyWithinClearThenAdd ==
    Completed({"add"}) =>
        /\ lastOp.stashed => lastOp.cleared.set
        /\ ~stash[<<lastOp.model, lastOp.pk>>].set

\* C17: after a call of save_without_historical_record(), the save having
\* returned or raised, the instance has no attribute skip_history_when_saving,
\* and an ordinary save() of the instance writes a snapshot.
C17_SkipFlagEndsWithCall ==
    /\ \A inst \in Instances : ~skip_history_when_saving[inst]
    /\ (Completed({"save"}) /\ ~lastOp.skip) => Len(WrittenOfInstance) = 1

C17_Witness ==
    /\ Completed({"save"})
    /\ ~lastOp.skip
    /\ lastOp.after_raise
    /\ Len(WrittenOfInstance) = 1
    /\ WrittenOfInstance[1].history_type = "~"

====
